---- MODULE Spec2Model ----
(***************************************************************************)
(* Model of the event stream connection manager of steemwatch             *)
(* (package eventstream: Manager.Bind, Manager.sendEvent, Manager.Close)  *)
(*                                                                         *)
(* Processes:                                                              *)
(*   - one goroutine per upgraded WebSocket connection (Manager.Bind),     *)
(*   - callers of sendEvent (through the Dispatch...Event methods),        *)
(*   - the caller of Manager.Close,                                        *)
(*   - the remote peers, seen through the results of reads and writes.     *)
(* manager.lock is a Go sync.RWMutex: a Lock call first takes the writer   *)
(* mutex, then announces itself, then waits for the active readers; an     *)
(* RLock call that arrives while a writer is announced or active blocks    *)
(* until that writer's Unlock, which admits all blocked readers.           *)
(* (package sync: "If any goroutine calls Lock while the lock is already   *)
(* held by one or more readers, concurrent calls to RLock will block until *)
(* the writer has acquired (and released) the lock".)                      *)
(* A connection's peer is seen only through the results of ReadMessage and *)
(* of the write attempt: a read may fail at any time (the peer went away), *)
(* and it fails once the server has closed the connection.                 *)
(***************************************************************************)
EXTENDS Integers, Sequences, FiniteSets, TLC

\* Number of WebSocket connections that are upgraded in a run.
MaxConns == 2
\* Number of concurrent callers of sendEvent.
MaxSenders == 2
\* Number of distinct user ids.
MaxUsers == 2
\* Number of calls of Manager.Close in a run.
MaxShutdowns == 2

\* Number of distinct payloads of an operation body.
MaxPayload == 4
\* Number of distinct non-nil content values.
MaxContent == 2

Conns == 1..MaxConns
Senders == 1..MaxSenders
Users == 1..MaxUsers

\* "no connection" / "no process" / "no user".
None == 0
\* The identity of the caller of Manager.Close as owner of manager.lock.
Closer == 0 - 1

VARIABLES
    pc,          \* pc[c]: position of the goroutine of connection c
    user,        \* user[c]: the userID the goroutine of c was started with
    connections, \* manager.connections: user -> registered connection (None: no key)
    closed,      \* manager.closed
    wOwner,      \* manager.lock: owner of the writer side (announced or active)
    readers,     \* manager.lock: senders holding the read side
    rblocked,    \* manager.lock: senders blocked in RLock behind a writer
    recLock,     \* recLock[c]: sender holding the record lock of c's record
    closeCount,  \* closeCount[c]: conn.Close() calls the server issued on c
    inserted,    \* inserted[c]: c's record was put into the map (history)
    prev,        \* prev[c]: the connection c's insert evicted (history)
    evictedLive, \* connections evicted while their read loop was running (history)
    spc,         \* spc[s]: position of sender s inside sendEvent
    tgt,         \* tgt[s]: userId argument of the running sendEvent call
    rec,         \* rec[s]: the record looked up by the running call
    wrote,       \* wrote[s]: connections the running call made a write attempt on
    outcome,     \* outcome[s]: how the running call ended
    mpc,         \* position of the caller of Manager.Close
    shutdowns,   \* number of Manager.Close calls that returned
    minePc,      \* position of the caller of MineEvent
    operation,   \* the operation argument of MineEvent
    content,     \* the content argument of MineEvent
    mined        \* the slice MineEvent returned

vars == <<pc, user, connections, closed, wOwner, readers, rblocked, recLock,
          closeCount, inserted, prev, evictedLive, spc, tgt, rec, wrote, outcome,
          mpc, shutdowns, minePc, operation, content, mined>>

connVars == <<pc, user, closeCount, inserted, prev, evictedLive>>
sendVars == <<spc, tgt, rec, wrote, outcome, recLock>>
lockVars == <<wOwner, readers, rblocked>>
mgrVars == <<mpc, shutdowns>>
mineVars == <<minePc, operation, content, mined>>
managerVars == <<connVars, connections, closed, lockVars, sendVars, mgrVars>>

\* The kinds of operation bodies (the dynamic type behind Operation.Body).
OpKinds == {"transfer", "vote", "comment", "account_update", "account_witness_vote"}

\* Operation{Type, Body}: the body carries its dynamic type and its payload.
Operations ==
    {[Type |-> k, Body |-> [kind |-> k, data |-> n]] : k \in OpKinds, n \in 1..MaxPayload}

\* The content argument: nil or a content value.
NilContent == 0
Contents == 0..MaxContent

\* No MineEvent call is under way: the argument slots are empty.
NoOperation == [Type |-> "none", Body |-> [kind |-> "none", data |-> 0]]

\* NewManager(): empty map, closed = false, fresh lock.
Init ==
    /\ pc = [c \in Conns |-> "idle"]
    /\ user = [c \in Conns |-> None]
    /\ connections = [u \in Users |-> None]
    /\ closed = FALSE
    /\ wOwner = None
    /\ readers = {}
    /\ rblocked = {}
    /\ recLock = [c \in Conns |-> None]
    /\ closeCount = [c \in Conns |-> 0]
    /\ inserted = [c \in Conns |-> FALSE]
    /\ prev = [c \in Conns |-> None]
    /\ evictedLive = {}
    /\ spc = [s \in Senders |-> "idle"]
    /\ tgt = [s \in Senders |-> None]
    /\ rec = [s \in Senders |-> None]
    /\ wrote = [s \in Senders |-> <<>>]
    /\ outcome = [s \in Senders |-> "none"]
    /\ mpc = "idle"
    /\ shutdowns = 0
    /\ minePc = "idle"
    /\ operation = NoOperation
    /\ content = NilContent
    /\ mined = <<>>

----------------------------------------------------------------------------
\* sync.RWMutex, as used through manager.lock

\* Lock(): take the writer mutex and announce the writer; the caller is in
\* its critical section at once when no reader is active.
LockCall(p) ==
    /\ wOwner = None
    /\ wOwner' = p
    /\ UNCHANGED <<readers, rblocked>>

\* LockGranted without waiting for the active readers.
LockGrantedIgnoringReaders(p) ==
    /\ wOwner = p

\* Lock(), second half: the last active reader left.
LockGranted(p) ==
    /\ wOwner = p
    /\ readers = {}

\* Unlock that releases the writer mutex and wakes no blocked reader.
UnlockWithoutWakingReaders(p) ==
    /\ wOwner = p
    /\ wOwner' = None
    /\ UNCHANGED <<readers, rblocked>>

\* Unlock(): every reader blocked behind the writer is admitted, then the
\* writer mutex is released.
Unlock(p) ==
    /\ wOwner = p
    /\ wOwner' = None
    /\ readers' = rblocked
    /\ rblocked' = {}

\* close(conn) on a set of connections.
CloseAll(S) == [c \in Conns |-> IF c \in S THEN closeCount[c] + 1 ELSE closeCount[c]]

----------------------------------------------------------------------------
\* The handler of GET /ws/ and the goroutine it starts

\* upgrader.Upgrade succeeded; go func(user.Id, conn). Connections are
\* numbered in the order they are upgraded.
Upgrade(c, u) ==
    /\ pc[c] = "idle"
    /\ \A d \in Conns : d < c => pc[d] # "idle"
    /\ pc' = [pc EXCEPT ![c] = "lock"]
    /\ user' = [user EXCEPT ![c] = u]
    /\ UNCHANGED <<connections, closed, lockVars, closeCount, inserted,
                   prev, evictedLive, sendVars, mgrVars>>
    /\ UNCHANGED mineVars

\* manager.lock.Lock() at the top of the goroutine.
BindLock(c) ==
    /\ pc[c] = "lock"
    /\ LockCall(c)
    /\ pc' = [pc EXCEPT ![c] = "crit"]
    /\ UNCHANGED <<user, connections, closed, closeCount, inserted,
                   prev, evictedLive, sendVars, mgrVars>>
    /\ UNCHANGED mineVars

\* if manager.closed { manager.lock.Unlock(); return }
BindClosed(c) ==
    /\ pc[c] = "crit"
    /\ LockGranted(c)
    /\ closed
    /\ Unlock(c)
    /\ pc' = [pc EXCEPT ![c] = "deferClose"]
    /\ UNCHANGED <<user, connections, closed, closeCount, inserted,
                   prev, evictedLive, sendVars, mgrVars>>
    /\ UNCHANGED mineVars

\* BindInsert with the eviction left out: the old connection is not closed.
BindInsertNoEvict(c) ==
    /\ pc[c] = "crit"
    /\ LockGranted(c)
    /\ ~closed
    /\ prev' = [prev EXCEPT ![c] = connections[user[c]]]
    /\ evictedLive' = IF connections[user[c]] # None /\ pc[connections[user[c]]] = "read"
                         THEN evictedLive \cup {connections[user[c]]} ELSE evictedLive
    /\ connections' = [connections EXCEPT ![user[c]] = c]
    /\ inserted' = [inserted EXCEPT ![c] = TRUE]
    /\ Unlock(c)
    /\ pc' = [pc EXCEPT ![c] = "read"]
    /\ UNCHANGED <<user, closed, closeCount, sendVars, mgrVars>>
    /\ UNCHANGED mineVars

\* BindInsert without the manager.closed check before it.
BindInsertIgnoringClosed(c) ==
    /\ pc[c] = "crit"
    /\ LockGranted(c)
    /\ LET old == connections[user[c]] IN
        /\ closeCount' = CloseAll(IF old # None THEN {old} ELSE {})
        /\ prev' = [prev EXCEPT ![c] = old]
        /\ evictedLive' = IF old # None /\ pc[old] = "read"
                             THEN evictedLive \cup {old} ELSE evictedLive
    /\ connections' = [connections EXCEPT ![user[c]] = c]
    /\ inserted' = [inserted EXCEPT ![c] = TRUE]
    /\ Unlock(c)
    /\ pc' = [pc EXCEPT ![c] = "read"]
    /\ UNCHANGED <<user, closed, sendVars, mgrVars>>
    /\ UNCHANGED mineVars

\* Close any existing connection of the user, insert the new record, Unlock.
BindInsert(c) ==
    /\ pc[c] = "crit"
    /\ LockGranted(c)
    /\ ~closed
    /\ LET old == connections[user[c]] IN
        /\ closeCount' = CloseAll(IF old # None THEN {old} ELSE {})
        /\ prev' = [prev EXCEPT ![c] = old]
        /\ evictedLive' = IF old # None /\ pc[old] = "read"
                             THEN evictedLive \cup {old} ELSE evictedLive
    /\ connections' = [connections EXCEPT ![user[c]] = c]
    /\ inserted' = [inserted EXCEPT ![c] = TRUE]
    /\ Unlock(c)
    /\ pc' = [pc EXCEPT ![c] = "read"]
    /\ UNCHANGED <<user, closed, sendVars, mgrVars>>
    /\ UNCHANGED mineVars

\* conn.ReadMessage() returned a message: it is dropped and the loop goes on.
ReadOk(c) ==
    /\ pc[c] = "read"
    /\ closeCount[c] = 0
    /\ UNCHANGED vars

\* conn.ReadMessage() returned an error: the connection was closed on the
\* server side, or the peer disconnected (possible at any time).
ReadFail(c) ==
    /\ pc[c] = "read"
    /\ pc' = [pc EXCEPT ![c] = "rmLock"]
    /\ UNCHANGED <<user, connections, closed, lockVars, closeCount,
                   inserted, prev, evictedLive, sendVars, mgrVars>>
    /\ UNCHANGED mineVars

\* manager.lock.Lock() in the error branch of the read loop.
RemoveLock(c) ==
    /\ pc[c] = "rmLock"
    /\ LockCall(c)
    /\ pc' = [pc EXCEPT ![c] = "rmCrit"]
    /\ UNCHANGED <<user, connections, closed, closeCount, inserted,
                   prev, evictedLive, sendVars, mgrVars>>
    /\ UNCHANGED mineVars

\* Remove with the delete left out: the record stays in the map.
RemoveWithoutDelete(c) ==
    /\ pc[c] = "rmCrit"
    /\ LockGranted(c)
    /\ Unlock(c)
    /\ pc' = [pc EXCEPT ![c] = "deferClose"]
    /\ UNCHANGED <<user, connections, closed, closeCount, inserted, prev,
                   evictedLive, sendVars, mgrVars>>
    /\ UNCHANGED mineVars

\* delete(manager.connections, userID); manager.lock.Unlock(); return
Remove(c) ==
    /\ pc[c] = "rmCrit"
    /\ LockGranted(c)
    /\ connections' = [connections EXCEPT ![user[c]] = None]
    /\ Unlock(c)
    /\ pc' = [pc EXCEPT ![c] = "deferClose"]
    /\ UNCHANGED <<user, closed, closeCount, inserted, prev, evictedLive,
                   sendVars, mgrVars>>
    /\ UNCHANGED mineVars

\* DeferClose with the deferred conn.Close() left out.
DeferCloseSkipped(c) ==
    /\ pc[c] = "deferClose"
    /\ pc' = [pc EXCEPT ![c] = "done"]
    /\ UNCHANGED <<user, connections, closed, lockVars, closeCount, inserted,
                   prev, evictedLive, sendVars, mgrVars>>
    /\ UNCHANGED mineVars

\* defer conn.Close(), run when the goroutine returns.
DeferClose(c) ==
    /\ pc[c] = "deferClose"
    /\ closeCount' = CloseAll({c})
    /\ pc' = [pc EXCEPT ![c] = "done"]
    /\ UNCHANGED <<user, connections, closed, lockVars, inserted,
                   prev, evictedLive, sendVars, mgrVars>>
    /\ UNCHANGED mineVars

----------------------------------------------------------------------------
\* Manager.sendEvent, reached through the Dispatch...Event methods

\* A call of sendEvent takes the first free caller slot.
\* manager.lock.RLock(): granted unless a writer is announced or active.
SendCall(s, u) ==
    /\ spc[s] = "idle"
    /\ \A r \in Senders : r < s => spc[r] # "idle"
    /\ tgt' = [tgt EXCEPT ![s] = u]
    /\ IF wOwner = None
          THEN /\ readers' = readers \cup {s}
               /\ UNCHANGED rblocked
          ELSE /\ rblocked' = rblocked \cup {s}
               /\ UNCHANGED readers
    /\ spc' = [spc EXCEPT ![s] = "check"]
    /\ UNCHANGED <<connVars, connections, closed, wOwner, rec,
                   wrote, outcome, recLock, mgrVars>>
    /\ UNCHANGED mineVars

\* DispatchTransferMadeEvent(userId, _, event): sendEvent(userId, formatted
\* event). The manager never looks at the event.
DispatchTransferMadeEvent(s, u) == SendCall(s, u)

\* if manager.closed { return nil }
SendClosed(s) ==
    /\ spc[s] = "check"
    /\ s \in readers
    /\ closed
    /\ outcome' = [outcome EXCEPT ![s] = "ok"]
    /\ spc' = [spc EXCEPT ![s] = "ret"]
    /\ UNCHANGED <<connVars, connections, closed, lockVars, tgt,
                   rec, wrote, recLock, mgrVars>>
    /\ UNCHANGED mineVars

\* SendAbsent reporting a missing record as a failure.
SendAbsentAsError(s) ==
    /\ spc[s] = "check"
    /\ s \in readers
    /\ ~closed
    /\ connections[tgt[s]] = None
    /\ outcome' = [outcome EXCEPT ![s] = "writeErr"]
    /\ spc' = [spc EXCEPT ![s] = "ret"]
    /\ UNCHANGED <<connVars, connections, closed, lockVars, tgt,
                   rec, wrote, recLock, mgrVars>>
    /\ UNCHANGED mineVars

\* record, ok := manager.connections[userId]; if !ok { return nil }
SendAbsent(s) ==
    /\ spc[s] = "check"
    /\ s \in readers
    /\ ~closed
    /\ connections[tgt[s]] = None
    /\ outcome' = [outcome EXCEPT ![s] = "ok"]
    /\ spc' = [spc EXCEPT ![s] = "ret"]
    /\ UNCHANGED <<connVars, connections, closed, lockVars, tgt,
                   rec, wrote, recLock, mgrVars>>
    /\ UNCHANGED mineVars

\* SendLookup without the manager.closed check before it.
SendLookupIgnoringClosed(s) ==
    /\ spc[s] = "check"
    /\ s \in readers
    /\ connections[tgt[s]] # None
    /\ rec' = [rec EXCEPT ![s] = connections[tgt[s]]]
    /\ spc' = [spc EXCEPT ![s] = "recLock"]
    /\ UNCHANGED <<connVars, connections, closed, lockVars, tgt,
                   wrote, outcome, recLock, mgrVars>>
    /\ UNCHANGED mineVars

\* record, ok := manager.connections[userId] with ok = true.
SendLookup(s) ==
    /\ spc[s] = "check"
    /\ s \in readers
    /\ ~closed
    /\ connections[tgt[s]] # None
    /\ rec' = [rec EXCEPT ![s] = connections[tgt[s]]]
    /\ spc' = [spc EXCEPT ![s] = "recLock"]
    /\ UNCHANGED <<connVars, connections, closed, lockVars, tgt,
                   wrote, outcome, recLock, mgrVars>>
    /\ UNCHANGED mineVars

\* SendRecLock without record.lock: the write starts at once.
SendRecLockNoWait(s) ==
    /\ spc[s] = "recLock"
    /\ recLock' = [recLock EXCEPT ![rec[s]] = s]
    /\ spc' = [spc EXCEPT ![s] = "write"]
    /\ UNCHANGED <<connVars, connections, closed, lockVars, tgt,
                   rec, wrote, outcome, mgrVars>>
    /\ UNCHANGED mineVars

\* record.lock.Lock()
SendRecLock(s) ==
    /\ spc[s] = "recLock"
    /\ recLock[rec[s]] = None
    /\ recLock' = [recLock EXCEPT ![rec[s]] = s]
    /\ spc' = [spc EXCEPT ![s] = "write"]
    /\ UNCHANGED <<connVars, connections, closed, lockVars, tgt,
                   rec, wrote, outcome, mgrVars>>
    /\ UNCHANGED mineVars

\* SendWrite dropping the record of a connection whose write failed.
SendWriteDroppingRecord(s, result) ==
    /\ spc[s] = "write"
    /\ result = "ok" => closeCount[rec[s]] = 0
    /\ wrote' = [wrote EXCEPT ![s] = Append(wrote[s], rec[s])]
    /\ outcome' = [outcome EXCEPT ![s] = result]
    /\ spc' = [spc EXCEPT ![s] = "ret"]
    /\ connections' = IF result = "ok" THEN connections
                       ELSE [connections EXCEPT ![tgt[s]] = None]
    /\ UNCHANGED <<connVars, closed, lockVars, tgt, rec, recLock, mgrVars>>
    /\ UNCHANGED mineVars

\* SendWrite retrying a failed attempt once before it returns.
SendWriteRetrying(s, result) ==
    /\ spc[s] = "write"
    /\ result = "ok" => closeCount[rec[s]] = 0
    /\ wrote' = [wrote EXCEPT ![s] =
                    IF result = "ok" THEN Append(wrote[s], rec[s])
                    ELSE Append(Append(wrote[s], rec[s]), rec[s])]
    /\ outcome' = [outcome EXCEPT ![s] = result]
    /\ spc' = [spc EXCEPT ![s] = "ret"]
    /\ UNCHANGED <<connVars, connections, closed, lockVars, tgt,
                   rec, recLock, mgrVars>>
    /\ UNCHANGED mineVars

\* The write attempt: SetWriteDeadline, then WriteJSON. It ends with nil, with
\* the wrapped error of SetWriteDeadline or with the error of WriteJSON; a
\* connection the server closed takes no write.
SendWrite(s, result) ==
    /\ spc[s] = "write"
    /\ result = "ok" => closeCount[rec[s]] = 0
    /\ wrote' = [wrote EXCEPT ![s] = Append(wrote[s], rec[s])]
    /\ outcome' = [outcome EXCEPT ![s] = result]
    /\ spc' = [spc EXCEPT ![s] = "ret"]
    /\ UNCHANGED <<connVars, connections, closed, lockVars, tgt,
                   rec, recLock, mgrVars>>
    /\ UNCHANGED mineVars

\* The deferred record.lock.Unlock() and manager.lock.RUnlock(); the call
\* returns to its caller.
SendReturn(s) ==
    /\ spc[s] = "ret"
    /\ recLock' = [c \in Conns |-> IF recLock[c] = s THEN None ELSE recLock[c]]
    /\ readers' = readers \ {s}
    /\ spc' = [spc EXCEPT ![s] = "idle"]
    /\ tgt' = [tgt EXCEPT ![s] = None]
    /\ rec' = [rec EXCEPT ![s] = None]
    /\ wrote' = [wrote EXCEPT ![s] = <<>>]
    /\ outcome' = [outcome EXCEPT ![s] = "none"]
    /\ UNCHANGED <<connVars, connections, closed, wOwner, rblocked,
                   mgrVars>>
    /\ UNCHANGED mineVars

----------------------------------------------------------------------------
\* Manager.Close

\* manager.lock.Lock()
CloseLock ==
    /\ mpc = "idle"
    /\ shutdowns < MaxShutdowns
    /\ LockCall(Closer)
    /\ mpc' = "crit"
    /\ UNCHANGED <<connVars, connections, closed, sendVars, shutdowns>>
    /\ UNCHANGED mineVars

\* CloseAllConnections closing every upgraded connection, registered or not.
CloseEveryUpgraded ==
    /\ mpc = "crit"
    /\ LockGranted(Closer)
    /\ closed' = TRUE
    /\ closeCount' = CloseAll({c \in Conns : pc[c] # "idle"})
    /\ Unlock(Closer)
    /\ mpc' = "idle"
    /\ shutdowns' = shutdowns + 1
    /\ UNCHANGED <<pc, user, inserted, prev, evictedLive, connections, sendVars>>
    /\ UNCHANGED mineVars

\* manager.closed = true; close every registered connection; Unlock; return.
CloseAllConnections ==
    /\ mpc = "crit"
    /\ LockGranted(Closer)
    /\ closed' = TRUE
    /\ closeCount' = CloseAll({connections[u] : u \in Users} \ {None})
    /\ Unlock(Closer)
    /\ mpc' = "idle"
    /\ shutdowns' = shutdowns + 1
    /\ UNCHANGED <<pc, user, inserted, prev, evictedLive, connections, sendVars>>
    /\ UNCHANGED mineVars

----------------------------------------------------------------------------
\* TransferMadeEventMiner

\* TransferMade{Op}: the event wraps the transfer operation it was given.
TransferMade(op) == [event |-> "TransferMade", Op |-> op]

\* MineEvent with a nil content taken as "nothing to mine".
MineEventNeedingContent(op, cont) ==
    IF op.Body.kind = "transfer" /\ cont # NilContent
        THEN <<TransferMade(op.Body)>>
        ELSE <<>>

\* op, ok := operation.Body.(*database.TransferOperation); nil unless ok,
\* else the one-element slice {&TransferMade{op}}. content is not read.
MineEvent(op, cont) ==
    IF op.Body.kind = "transfer"
        THEN <<TransferMade(op.Body)>>
        ELSE <<>>

\* A caller has an operation and its content at hand.
MineInit ==
    /\ pc = [c \in Conns |-> "idle"]
    /\ user = [c \in Conns |-> None]
    /\ connections = [u \in Users |-> None]
    /\ closed = FALSE
    /\ wOwner = None
    /\ readers = {}
    /\ rblocked = {}
    /\ recLock = [c \in Conns |-> None]
    /\ closeCount = [c \in Conns |-> 0]
    /\ inserted = [c \in Conns |-> FALSE]
    /\ prev = [c \in Conns |-> None]
    /\ evictedLive = {}
    /\ spc = [s \in Senders |-> "idle"]
    /\ tgt = [s \in Senders |-> None]
    /\ rec = [s \in Senders |-> None]
    /\ wrote = [s \in Senders |-> <<>>]
    /\ outcome = [s \in Senders |-> "none"]
    /\ mpc = "idle"
    /\ shutdowns = 0
    /\ minePc = "input"
    /\ operation \in Operations
    /\ content \in Contents
    /\ mined = <<>>

\* miner.MineEvent(operation, content) is called and returns.
Mine ==
    /\ minePc = "input"
    /\ mined' = MineEvent(operation, content)
    /\ minePc' = "mined"
    /\ UNCHANGED <<operation, content, managerVars>>

\* The caller goes on to the next operation of the stream.
NextOperation ==
    /\ minePc = "mined"
    /\ operation' \in Operations
    /\ content' \in Contents
    /\ mined' = <<>>
    /\ minePc' = "input"
    /\ UNCHANGED managerVars

MineNext == Mine \/ NextOperation

MineSpec == MineInit /\ [][MineNext]_vars

----------------------------------------------------------------------------
Results == {"ok", "deadlineErr", "writeErr"}

Next ==
    \/ \E c \in Conns, u \in Users : Upgrade(c, u)
    \/ \E c \in Conns : BindLock(c)
    \/ \E c \in Conns : BindClosed(c)
    \/ \E c \in Conns : BindInsert(c)
    \/ \E c \in Conns : ReadOk(c)
    \/ \E c \in Conns : ReadFail(c)
    \/ \E c \in Conns : RemoveLock(c)
    \/ \E c \in Conns : Remove(c)
    \/ \E c \in Conns : DeferClose(c)
    \/ \E s \in Senders, u \in Users : DispatchTransferMadeEvent(s, u)
    \/ \E s \in Senders : SendClosed(s)
    \/ \E s \in Senders : SendAbsent(s)
    \/ \E s \in Senders : SendLookup(s)
    \/ \E s \in Senders : SendRecLock(s)
    \/ \E s \in Senders, r \in Results : SendWrite(s, r)
    \/ \E s \in Senders : SendReturn(s)
    \/ CloseLock
    \/ CloseAllConnections

Spec == Init /\ [][Next]_vars


\* conn.ReadMessage() on a connection the server closed returns an error.
ReadFailClosed(c) == ReadFail(c) /\ closeCount[c] > 0

\* Fair scheduling: a goroutine that can take its next step takes it. A read
\* has to return only once the connection is closed (the peer may stay
\* forever); a write attempt ends within its deadline; record.lock is handed
\* to a sender that keeps waiting for it. Nothing forces a new connection, a
\* new sendEvent call or a Manager.Close call to come.
Fairness ==
    /\ \A c \in Conns :
          /\ WF_vars(BindLock(c))
          /\ WF_vars(BindClosed(c))
          /\ WF_vars(BindInsert(c))
          /\ WF_vars(ReadFailClosed(c))
          /\ WF_vars(RemoveLock(c))
          /\ WF_vars(Remove(c))
          /\ WF_vars(DeferClose(c))
    /\ \A s \in Senders :
          /\ WF_vars(SendClosed(s))
          /\ WF_vars(SendAbsent(s))
          /\ WF_vars(SendLookup(s))
          /\ SF_vars(SendRecLock(s))
          /\ WF_vars(\E r \in Results : SendWrite(s, r))
          /\ WF_vars(SendReturn(s))
    /\ WF_vars(CloseAllConnections)

FairSpec == Spec /\ Fairness

----------------------------------------------------------------------------
\* Derived notions used by the properties

\* The server has not closed c and c's read loop has seen no failure.
Live(c) == pc[c] = "read" /\ closeCount[c] = 0

\* Sender s is past the checks of sendEvent and still holds the read lock.
AfterCheck(s) == spc[s] = "ret"

\* The goroutine of c leaves the critical section of the read-failure branch.
RemoveStep(c) == pc[c] = "rmCrit" /\ pc'[c] = "deferClose"

\* The goroutine of c leaves the critical section that inserts its record.
InsertStep(c) == pc[c] = "crit" /\ pc'[c] = "read"

----------------------------------------------------------------------------
\* C1: when the read loop of connection c fails and c's goroutine deletes the
\* entry of its user, a record registered for another connection is never
\* removed: an entry that holds a newer connection is still there afterwards.
C1_StaleReaderKeepsNewerRecord ==
    [][\A c \in Conns : RemoveStep(c) =>
          \A u \in Users :
              (connections[u] # None /\ connections[u] # c)
                  => connections'[u] = connections[u]]_vars

\* C2: after a user's connection c evicted an older one, and while c has not
\* disconnected and the manager is not closed, a sendEvent to that user makes
\* its write attempt on c: it is not dropped and it goes nowhere else.
C2_SendAfterEvictionReachesNewConnection ==
    \A s \in Senders, c \in Conns :
        ( /\ AfterCheck(s)
          /\ ~closed
          /\ user[c] = tgt[s]
          /\ prev[c] \in evictedLive
          /\ Live(c)
          /\ \A d \in Conns \ {c} : user[d] = user[c] => ~Live(d) )
        => wrote[s] = <<c>>

\* C3: the insert of a connection for a user who has a registered connection
\* closes that connection and, in the same critical section, makes the new
\* connection the one record of the user; other users' records are untouched
\* and the lock is released.
C3_OpenEvictsAndReplaces ==
    [][\A c \in Conns : InsertStep(c) =>
          LET old == connections[user[c]] IN
              /\ old # None => closeCount'[old] = closeCount[old] + 1
              /\ connections'[user[c]] = c
              /\ Cardinality({d \in Conns : \E u \in Users :
                                  connections'[u] = d /\ user[d] = user[c]}) = 1
              /\ \A u \in Users \ {user[c]} : connections'[u] = connections[u]
              /\ wOwner' = None]_vars

C3_Witness ==
    \E c \in Conns :
        /\ prev[c] # None
        /\ connections[user[c]] = c
        /\ closeCount[prev[c]] > 0
        /\ pc[c] = "read"

\* C4: once Manager.Close has returned, every connection whose record was
\* inserted is closed: by the server, or its peer has disconnected.
C4_ShutdownClosesEveryConnection ==
    shutdowns > 0 => \A c \in Conns : inserted[c] => ~Live(c)

\* C5: manager.closed, once set, stays set; from then on no record is
\* inserted, no sendEvent makes a write attempt and every sendEvent returns nil.
C5_ClosedIsPermanent ==
    [][closed =>
          /\ closed'
          /\ inserted' = inserted
          /\ \A u \in Users : connections'[u] \in {connections[u], None}
          /\ \A s \in Senders :
                /\ wrote'[s] = <<>>
                /\ outcome'[s] \in {"none", "ok"}]_vars

C5_Witness ==
    /\ closed
    /\ \E s \in Senders : spc[s] = "ret" /\ outcome[s] = "ok" /\ connections[tgt[s]] # None
    /\ \E c \in Conns : pc[c] = "deferClose" /\ ~inserted[c]

\* C6 as stated: the server issues at most one close on a connection, and
\* exactly one once the connection's goroutine has ended.
C6_ClosedExactlyOnce ==
    \A c \in Conns :
        /\ closeCount[c] <= 1
        /\ pc[c] = "done" => closeCount[c] = 1

\* C6 as amended: a connection whose goroutine has ended was closed at least
\* once; the closes the server issues on it are the deferred one of its
\* goroutine plus either the one of its eviction or one per Manager.Close
\* call, never more.
C6_ClosedAtLeastOnceBounded ==
    \A c \in Conns :
        /\ pc[c] = "done" => closeCount[c] >= 1
        /\ closeCount[c] <= (IF pc[c] = "done" THEN 1 ELSE 0)
                            + (IF \E d \in Conns : prev[d] = c THEN 1 ELSE shutdowns)

C6_Witness ==
    \E c \in Conns : pc[c] = "done" /\ closeCount[c] = 2 /\ \E d \in Conns : prev[d] = c

\* C7: at most one sendEvent at a time is between record.lock.Lock() and
\* record.lock.Unlock() of one connection record.
C7_WritesSerialized ==
    \A c \in Conns :
        Cardinality({s \in Senders : spc[s] \in {"write", "ret"} /\ rec[s] = c}) <= 1

C7_Witness ==
    \E s, t \in Senders :
        /\ s # t
        /\ spc[s] = "write"
        /\ spc[t] = "recLock"
        /\ rec[t] = rec[s]

\* C8: a sendEvent to one user is never kept from the read lock while the
\* only holders of manager.lock are write attempts of sendEvent calls to
\* other users.
C8_SendsToDifferentUsersNeverBlock ==
    \A s, t \in Senders :
        ~( /\ s \in rblocked
           /\ t \in readers
           /\ spc[t] = "write"
           /\ \A r \in readers : tgt[r] # tgt[s] )

\* C9: a sendEvent to a user without a record returns nil, makes no write
\* attempt, and changes neither the map nor the closed flag.
C9_SendToAbsentUserIsNoOp ==
    [][\A s \in Senders :
          ( /\ s \in readers
            /\ ~closed
            /\ connections[tgt[s]] = None
            /\ spc[s] \in {"check", "ret"}
            /\ spc'[s] # spc[s] )
          => /\ wrote[s] = <<>> /\ wrote'[s] = <<>>
             /\ outcome'[s] = (IF spc[s] = "check" THEN "ok" ELSE "none")
             /\ spc'[s] = (IF spc[s] = "check" THEN "ret" ELSE "idle")
             /\ spc[s] = "ret" => outcome[s] = "ok"
             /\ connections' = connections
             /\ closed' = closed]_vars

C9_Witness ==
    \E s \in Senders, c \in Conns :
        /\ spc[s] = "ret"
        /\ ~closed
        /\ connections[tgt[s]] = None
        /\ outcome[s] = "ok"
        /\ Live(c)
        /\ connections[user[c]] = c

\* C10: a dispatch to a user with a registered open connection, the manager
\* not closed, makes exactly one write attempt, on the connection registered
\* for that user, and none on any other connection.
C10_DispatchWritesOnceOnRegistered ==
    \A s \in Senders :
        ( /\ AfterCheck(s)
          /\ ~closed
          /\ connections[tgt[s]] # None
          /\ closeCount[connections[tgt[s]]] = 0 )
        => wrote[s] = <<connections[tgt[s]]>>

C10_Witness ==
    \E s \in Senders, c \in Conns :
        /\ spc[s] = "ret"
        /\ outcome[s] = "ok"
        /\ wrote[s] = <<connections[tgt[s]]>>
        /\ Live(c)
        /\ user[c] # tgt[s]
        /\ connections[user[c]] = c

\* The goroutine of c leaves the critical section through the closed branch.
ClosedBranchStep(c) == pc[c] = "crit" /\ pc'[c] = "deferClose"

\* Manager.Close leaves its critical section and returns.
ShutdownStep == mpc = "crit" /\ mpc' = "idle"

\* The errors sendEvent returns.
Failures == {"deadlineErr", "writeErr"}

----------------------------------------------------------------------------
\* C12: the goroutine of a connection offered to a closed manager inserts
\* nothing, evicts nothing, never enters the read loop, leaves the map and
\* the closed flag as they were, and closes the offered connection (only it)
\* when it returns.
C12_OpenOnClosedManagerOnlyClosesOffered ==
    [][\A c \in Conns :
          /\ (pc[c] = "crit" /\ closed /\ pc'[c] # pc[c]) =>
                /\ pc'[c] = "deferClose"
                /\ connections' = connections
                /\ closed' = closed
                /\ inserted' = inserted
                /\ closeCount' = closeCount
          /\ (pc[c] = "deferClose" /\ ~inserted[c] /\ pc'[c] # pc[c]) =>
                /\ pc'[c] = "done"
                /\ connections' = connections
                /\ closed' = closed
                /\ inserted' = inserted
                /\ closeCount' = [closeCount EXCEPT ![c] = @ + 1]]_vars

C12_Witness ==
    \E c, d \in Conns :
        /\ closed
        /\ pc[c] = "done"
        /\ ~inserted[c]
        /\ closeCount[c] = 1
        /\ inserted[d]
        /\ connections[user[d]] = d

\* C13: a sendEvent whose write attempt fails returns the error and changes
\* neither the map (the failing user's record included) nor the closed flag,
\* and it leaves the calls of the other senders where they are.
C13_FailedSendLeavesRegistryUnchanged ==
    [][\A s \in Senders :
          ( /\ spc'[s] # spc[s]
            /\ \/ spc[s] = "write" /\ outcome'[s] \in Failures
               \/ spc[s] = "ret" /\ outcome[s] \in Failures )
          => /\ connections' = connections
             /\ connections[tgt[s]] = rec[s]
             /\ closed' = closed
             /\ spc[s] = "write" => spc'[s] = "ret"
             /\ spc[s] = "ret" => (spc'[s] = "idle" /\ recLock'[rec[s]] = None)
             /\ \A t \in Senders \ {s} :
                   /\ spc'[t] = spc[t]
                   /\ rec'[t] = rec[t]
                   /\ wrote'[t] = wrote[t]
                   /\ outcome'[t] = outcome[t]]_vars

C13_Witness ==
    \E s, t \in Senders :
        /\ spc[s] = "ret"
        /\ outcome[s] \in Failures
        /\ connections[tgt[s]] = rec[s]
        /\ spc[t] = "write"
        /\ tgt[t] # tgt[s]

\* C14: a Manager.Close call after the first leaves closed set and changes
\* neither the map nor which connections are closed.
C14_SecondShutdownChangesNothing ==
    [][(ShutdownStep /\ shutdowns >= 1) =>
          /\ closed /\ closed'
          /\ connections' = connections
          /\ \A c \in Conns : (closeCount'[c] > 0) = (closeCount[c] > 0)]_vars

C14_Witness ==
    \E c \in Conns :
        /\ shutdowns = 2
        /\ inserted[c]
        /\ connections[user[c]] = c
        /\ closeCount[c] >= 2

\* C17: a step that changes the map or the closed flag, or that leaves a
\* critical section of Bind or Close, is taken by the one owner of the write
\* side while no sendEvent holds the read side: every sender is outside
\* sendEvent or still blocked in RLock, none is between lookup and return.
C17_MutationExcludesSends ==
    [][( \/ connections' # connections
         \/ closed' # closed
         \/ ShutdownStep
         \/ \E c \in Conns : InsertStep(c) \/ RemoveStep(c) \/ ClosedBranchStep(c) )
       => /\ wOwner # None
          /\ wOwner' = None
          /\ \A s \in Senders :
                \/ spc[s] = "idle"
                \/ spc[s] = "check" /\ s \in rblocked]_vars

\* Two sends are inside their read sections at the same time while a writer
\* waits for them.
C17_Witness ==
    \E s, t \in Senders :
        /\ s # t
        /\ spc[s] = "write"
        /\ spc[t] = "write"
        /\ wOwner # None

\* C18: a sendEvent call makes at most one write attempt and never a second
\* one; it returns an error only after that one attempt, and nil when it made
\* no attempt.
C18_AtMostOneAttemptPerSend ==
    \A s \in Senders :
        /\ Len(wrote[s]) <= 1
        /\ wrote[s] # <<>> => wrote[s] = <<rec[s]>>
        /\ spc[s] = "ret" =>
              /\ outcome[s] \in Failures => Len(wrote[s]) = 1
              /\ wrote[s] = <<>> => outcome[s] = "ok"
        /\ spc[s] # "ret" => (wrote[s] = <<>> /\ outcome[s] = "none")

C18_Witness ==
    \E s \in Senders :
        /\ spc[s] = "ret"
        /\ outcome[s] = "deadlineErr"
        /\ wrote[s] = <<rec[s]>>

\* C19: while the manager is not closed, every connection whose record was
\* inserted, that the server has not closed and whose read loop is running is
\* the connection registered for its user.
C19_NoLiveConnectionOrphaned ==
    ~closed => \A c \in Conns : (inserted[c] /\ Live(c)) => connections[user[c]] = c

\* C20: the connection a sendEvent waits to write on, writes on, or has
\* written on before it returns, has not been closed by the server.
C20_NoWriteOnServerClosedConnection ==
    \A s \in Senders :
        spc[s] \in {"recLock", "write", "ret"} /\ rec[s] # None
            => closeCount[rec[s]] = 0

C20_Witness ==
    \E s \in Senders, c \in Conns :
        /\ spc[s] = "ret"
        /\ wrote[s] = <<rec[s]>>
        /\ closeCount[c] > 0
        /\ user[c] = tgt[s]

\* C15: MineEvent returns one TransferMade event that wraps the operation's
\* body exactly when the body is a transfer, and an empty slice for every
\* other kind; the result is the same for every content argument; the call
\* changes neither its arguments nor any other state.
C15_MineEventTransferOnly ==
    /\ [](minePc = "mined" =>
            /\ Len(mined) = (IF operation.Body.kind = "transfer" THEN 1 ELSE 0)
            /\ Len(mined) = 1 =>
                  /\ mined[1].event = "TransferMade"
                  /\ mined[1].Op = operation.Body
            /\ \A k \in Contents : MineEvent(operation, k) = mined)
    /\ [][(minePc = "input" /\ minePc' = "mined") =>
            /\ operation' = operation
            /\ content' = content
            /\ UNCHANGED managerVars]_vars

C15_Witness ==
    /\ minePc = "mined"
    /\ operation.Body.kind = "transfer"
    /\ content = NilContent
    /\ Len(mined) = 1
    /\ mined[1].Op.data = MaxPayload

\* C11: after Manager.Close has returned, the goroutine of every connection
\* whose record was inserted eventually ends, with nothing but the closing of
\* its connection to wake its read.
C11_ReadersEndAfterShutdown ==
    \A c \in Conns : (shutdowns > 0 /\ inserted[c]) ~> (pc[c] = "done")

\* C16: under fair scheduling every sendEvent call returns, every goroutine
\* that asked for the write lock gets through its critical section, every
\* goroutine whose read failed removes its entry and ends, and every
\* Manager.Close that asked for the lock returns.
C16_OperationsComplete ==
    /\ \A s \in Senders : (spc[s] # "idle") ~> (spc[s] = "idle")
    /\ \A c \in Conns : (pc[c] \in {"lock", "crit"}) ~> (pc[c] \in {"read", "done"})
    /\ \A c \in Conns : (pc[c] \in {"rmLock", "rmCrit", "deferClose"}) ~> (pc[c] = "done")
    /\ (mpc = "crit") ~> (mpc = "idle")

\* A sender blocked in RLock behind a waiting writer, which waits for a
\* sender that waits for the record lock a third call holds.
C16_Witness ==
    \E s \in Senders, c \in Conns :
        /\ spc[s] = "write"
        /\ wOwner = Closer
        /\ pc[c] = "rmLock"
        /\ \E t \in Senders : t \in rblocked

====
